---- MODULE Spec2Model ----
(***************************************************************************)
(* A model of scripts/python_model.py: the gas-price forecasting pipeline. *)
(* main() reads a CSV file, rename_and_train_test_split() tags and splits  *)
(* the rows, final_prophet_model() configures and fits the forecasting     *)
(* model, predicts, cross-validates and reports MAE / RMSE.                *)
(*                                                                         *)
(* A date is a tuple <<year, month, day>> compared field by field, as      *)
(* datetime / Timestamp values are.  A data frame is a record              *)
(*   [columns |-> sequence of column names,                                *)
(*    rows    |-> sequence of [label |-> row label, val |-> column->value]]*)
(* so that row labels (the pandas index) and row positions are distinct.   *)
(* Prices and predictions are integers (cents).                            *)
(***************************************************************************)
EXTENDS Integers, Sequences, FiniteSets, TLC

VARIABLES
    csv,            \* the file scripts/forecasting_take_home_data.csv
    pc,             \* the next step of main() / final_prophet_model()
    error,          \* the exception that ended the run, if any
    dataframe,      \* main's dataframe object
    train_data,     \* main's train_data
    test_data,      \* main's test_data
    all_data,       \* final_prophet_model's all_data
    model,          \* the Prophet object
    future,         \* final_prophet_model's future
    forecast,       \* final_prophet_model's forecast
    fig1,           \* the plot handle
    cv,             \* cross_validation / performance_metrics results
    y_actual,       \* test_data.y
    y_predicted,    \* forecast.iloc[288:, -1]
    metrics,        \* train_mae, train_rmse, test_mae, test_rmse
    stdout,         \* what print() wrote
    log             \* the calls made so far, in order

vars == <<csv, pc, error, dataframe, train_data, test_data, all_data, model,
          future, forecast, fig1, cv, y_actual, y_predicted, metrics, stdout, log>>

----------------------------------------------------------------------------
(* Bounds of the model *)

\* datasets start and end up to MaxShift months around the documented ones
MaxShift == 1
\* predictions are off by at most MaxErr cents
MaxErr == 1

----------------------------------------------------------------------------
(* Dates *)

DateLt(a, b) ==
    \/ a[1] < b[1]
    \/ a[1] = b[1] /\ a[2] < b[2]
    \/ a[1] = b[1] /\ a[2] = b[2] /\ a[3] < b[3]

DateLe(a, b) == a = b \/ DateLt(a, b)

IsLeap(y) == (y % 4 = 0 /\ y % 100 # 0) \/ y % 400 = 0

DaysInMonth(y, m) ==
    IF m = 2 THEN (IF IsLeap(y) THEN 29 ELSE 28)
    ELSE IF m \in {4, 6, 9, 11} THEN 30 ELSE 31

\* days since 0001-01-01, for the Timedelta arithmetic of cross_validation
DaysBeforeYear(y) == (y - 1) * 365 + ((y - 1) \div 4) - ((y - 1) \div 100) + ((y - 1) \div 400)

RECURSIVE DaysBeforeMonth(_, _)
DaysBeforeMonth(y, m) ==
    IF m = 1 THEN 0 ELSE DaysBeforeMonth(y, m - 1) + DaysInMonth(y, m - 1)

Ordinal(d) == DaysBeforeYear(d[1]) + DaysBeforeMonth(d[1], d[2]) + d[3]

\* the first day of the month after d's month (freq='MS')
NextMonthStart(d) == IF d[2] = 12 THEN <<d[1] + 1, 1, 1>> ELSE <<d[1], d[2] + 1, 1>>

----------------------------------------------------------------------------
(* The input file.  Months are counted from January 1990 (month 0). *)

MonthDate(k, day) ==
    LET y == 1990 + (k \div 12)
        m == 1 + (k % 12)
    IN  <<y, m, IF day = "MS" THEN 1 ELSE IF day = "second" THEN 2 ELSE DaysInMonth(y, m)>>

\* the price of month k, in cents
Price(k) == 100 + ((k * k) % 7)

\* month numbers of January 1992, February 2008, January 2014, December 2015, January 2018
Jan1992 == (1992 - 1990) * 12
Feb2008 == (2008 - 1990) * 12 + 1
Jan2014 == (2014 - 1990) * 12
Dec2015 == (2015 - 1990) * 12 + 11
Jan2018 == (2018 - 1990) * 12

Shifts == (0 - MaxShift) .. MaxShift

FileRows(first, last, order, day) ==
    [i \in 1 .. (last - first + 1) |->
        LET k == IF order = "asc" THEN first + i - 1 ELSE last - i + 1
        IN  <<MonthDate(k, day), Price(k)>>]

StdHeader == <<"month_and_year", "gas_price">>

\* the documented file (monthly, January 1992 - January 2018) and files that
\* start or end a few months earlier or later
LongFiles ==
    { [header |-> StdHeader, rows |-> FileRows(Jan1992 + s, Jan2018 + e, "asc", "MS")] :
        s \in Shifts, e \in Shifts }

\* such files in descending order, or dated on the second or last day of the month
OddFiles ==
    { [header |-> StdHeader, rows |-> FileRows(Jan1992, Jan2018 + e, od[1], od[2])] :
        e \in Shifts,
        od \in { <<"desc", "MS">>, <<"asc", "second">>, <<"asc", "ME">>, <<"desc", "ME">> } }

\* files that end before 2016 (no test rows), ten-year files and files too
\* short for the cross-validation window
OtherFiles ==
    { [header |-> StdHeader, rows |-> FileRows(Jan1992 + s, Dec2015, "asc", "MS")] :
        s \in Shifts }
    \cup
    { [header |-> StdHeader, rows |-> FileRows(Feb2008 + e, Jan2018 + e, "asc", "MS")] :
        e \in Shifts }
    \cup
    { [header |-> StdHeader, rows |-> FileRows(Jan2014 + s, Jan2018, "asc", "MS")] :
        s \in Shifts }

\* files whose header lacks a required column name
BadHeaderFiles ==
    { [header |-> h, rows |-> FileRows(Jan1992, Jan2018, "asc", "MS")] :
        h \in { <<"month_and_year", "price">>, <<"date", "gas_price">> } }

Files == LongFiles \cup OddFiles \cup OtherFiles \cup BadHeaderFiles

----------------------------------------------------------------------------
(* pandas *)

NoFrame == [columns |-> <<>>, rows |-> <<>>]

Range(s) == { s[i] : i \in DOMAIN s }

\* pd.read_csv(path, index_col=False, usecols=[0, 1], parse_dates=[0]):
\* the first two columns under the header's names, default index 0 .. n-1
read_csv(file) ==
    [columns |-> file.header,
     rows |-> [i \in DOMAIN file.rows |->
                 [label |-> i - 1,
                  val |-> [c \in Range(file.header) |->
                             IF c = file.header[1] THEN file.rows[i][1]
                                                   ELSE file.rows[i][2]]]]]

\* the frame with its columns renamed by the mapping; names the frame does not
\* have are left out of account
RenameColumns(frame, mapping) ==
    LET new(c) == IF c \in DOMAIN mapping THEN mapping[c] ELSE c
        old(n) == CHOOSE c \in Range(frame.columns) : new(c) = n
        names == { new(c) : c \in Range(frame.columns) }
    IN  [columns |-> [i \in DOMAIN frame.columns |-> new(frame.columns[i])],
         rows |-> [i \in DOMAIN frame.rows |->
                     [label |-> frame.rows[i].label,
                      val |-> [n \in names |-> frame.rows[i].val[old(n)]]]]]

\* rename(columns=mapping, errors='raise'): KeyError for a name the frame lacks
rename_strict(frame, mapping) ==
    IF DOMAIN mapping \subseteq Range(frame.columns)
    THEN [frame |-> RenameColumns(frame, mapping), error |-> ""]
    ELSE [frame |-> frame, error |-> "KeyError"]

\* DataFrame.rename(columns=mapping): a new frame; names the frame does not
\* have are ignored (errors='ignore' is the default)
rename(frame, mapping) == [frame |-> RenameColumns(frame, mapping), error |-> ""]

\* pd.concat([a, b], ignore_index=True): a's rows then b's, relabelled 0 .. n-1
concat(a, b) ==
    LET rows == a.rows \o b.rows
    IN  [columns |-> a.columns \o SelectSeq(b.columns, LAMBDA c : c \notin Range(a.columns)),
         rows |-> [i \in DOMAIN rows |-> [label |-> i - 1, val |-> rows[i].val]]]

\* sort_values('ds'): the rows in ascending order of ds (rows of equal ds keep
\* their order), by partition around the middle row
RECURSIVE sort_values(_)
sort_values(rows) ==
    IF Len(rows) <= 1 THEN rows
    ELSE LET pivot == rows[(Len(rows) + 1) \div 2].val["ds"]
         IN  sort_values(SelectSeq(rows, LAMBDA e : DateLt(e.val["ds"], pivot)))
             \o SelectSeq(rows, LAMBDA e : e.val["ds"] = pivot)
             \o sort_values(SelectSeq(rows, LAMBDA e : DateLt(pivot, e.val["ds"])))

\* reset_index(drop=True)
reset_index(rows) == [i \in DOMAIN rows |-> [label |-> i - 1, val |-> rows[i].val]]

----------------------------------------------------------------------------
(* is_great_recession *)

is_great_recession_open(ds) ==
    LET day_to_check == ds
    IN  IF DateLe(<<2007, 12, 1>>, day_to_check) /\ DateLt(day_to_check, <<2009, 6, 1>>)
        THEN 1
        ELSE 0

is_great_recession(ds) ==
    LET day_to_check == ds
    IN  IF DateLe(<<2007, 12, 1>>, day_to_check) /\ DateLe(day_to_check, <<2009, 6, 1>>)
        THEN 1
        ELSE 0

\* frame['great_recession'] = frame['ds'].apply(is_great_recession): the
\* column is added to this frame
AddGreatRecession(frame) ==
    [columns |-> IF "great_recession" \in Range(frame.columns) THEN frame.columns
                 ELSE Append(frame.columns, "great_recession"),
     rows |-> [i \in DOMAIN frame.rows |->
                 [label |-> frame.rows[i].label,
                  val |-> ("great_recession" :> is_great_recession(frame.rows[i].val["ds"]))
                          @@ frame.rows[i].val]]]

----------------------------------------------------------------------------
(* rename_and_train_test_split *)

start_date == <<2016, 1, 1>>
last_date == <<2018, 1, 1>>

ColumnMapping == ("gas_price" :> "y") @@ ("month_and_year" :> "ds")

\* the train mask of a split that puts the boundary row in both parts
TrainMaskInclusive(row) == DateLe(row.val["ds"], start_date)

TrainMask(row) == DateLt(row.val["ds"], start_date)

TestMask(row) == DateLe(start_date, row.val["ds"]) /\ DateLe(row.val["ds"], last_date)

\* the body of the function after the rename: tag, then split (frame[mask]
\* keeps the rows the mask holds for, in order, with their labels).
\* dataframe['ds'] raises KeyError when the frame has no column ds.
TagAndSplit(arg, renamed) ==
    IF renamed.error # ""
    THEN [arg |-> arg, train |-> NoFrame, test |-> NoFrame, error |-> renamed.error]
    ELSE IF "ds" \notin Range(renamed.frame.columns)
    THEN [arg |-> arg, train |-> NoFrame, test |-> NoFrame, error |-> "KeyError"]
    ELSE LET tagged == AddGreatRecession(renamed.frame)
         IN  [arg |-> arg,
              train |-> [columns |-> tagged.columns, rows |-> SelectSeq(tagged.rows, TrainMask)],
              test |-> [columns |-> tagged.columns, rows |-> SelectSeq(tagged.rows, TestMask)],
              error |-> ""]

\* the function with rename(..., inplace=True) semantics: the caller's frame
\* is the one renamed and tagged
rename_and_train_test_split_inplace(frame) ==
    LET renamed == rename(frame, ColumnMapping)
        r == TagAndSplit(frame, renamed)
    IN  IF r.error # "" THEN [r EXCEPT !.arg = renamed.frame]
        ELSE [r EXCEPT !.arg = AddGreatRecession(renamed.frame)]

\* the result: the caller's frame after the call (arg), Train, Test, and the
\* exception raised, if any.  rename returns a new frame, which the local
\* name dataframe is bound to; the column is added to that new frame.
rename_and_train_test_split(frame) ==
    TagAndSplit(frame, rename(frame, ColumnMapping))

----------------------------------------------------------------------------
(* The forecasting library (fbprophet), as far as the script drives it *)

NoModel == [configured |-> FALSE, options |-> <<>>, seasonalities |-> <<>>,
            fits |-> 0, history |-> <<>>, history_dates |-> <<>>]

\* Prophet(yearly_seasonality=False, changepoint_prior_scale=.1, changepoint_range=0.85);
\* the two fractions are in hundredths
Prophet ==
    [configured |-> TRUE,
     options |-> [yearly_seasonality |-> FALSE, changepoint_prior_scale |-> 10,
                  changepoint_range |-> 85],
     seasonalities |-> <<>>, fits |-> 0, history |-> <<>>, history_dates |-> <<>>]

\* model.add_seasonality(...); the period is in hundredths of a day
add_seasonality(m, s) == [m EXCEPT !.seasonalities = Append(@, s)]

YearlySeasonality ==
    [name |-> "yearly", period |-> 36525, fourier_order |-> 3, prior_scale |-> 20,
     mode |-> "additive", condition_name |-> ""]

RecessionSeasonality ==
    [name |-> "great_recession", period |-> 36525, fourier_order |-> 4, prior_scale |-> 10,
     mode |-> "additive", condition_name |-> "great_recession"]

\* the columns setup_dataframe needs of a frame: ds, and every seasonality's condition
MissingColumns(m, frame) ==
    \/ "ds" \notin Range(frame.columns)
    \/ \E i \in DOMAIN m.seasonalities :
          /\ m.seasonalities[i].condition_name # ""
          /\ m.seasonalities[i].condition_name \notin Range(frame.columns)

\* Prophet.fit(df): the frame needs ds and y and two rows; the history is the
\* frame sorted by ds and re-indexed
fit(m, frame) ==
    IF "ds" \notin Range(frame.columns) \/ "y" \notin Range(frame.columns)
    THEN [model |-> m, error |-> "ValueError"]
    ELSE IF Len(frame.rows) < 2 \/ MissingColumns(m, frame)
    THEN [model |-> m, error |-> "ValueError"]
    ELSE LET history == reset_index(sort_values(frame.rows))
         IN  [model |-> [m EXCEPT !.fits = @ + 1,
                                  !.history = history,
                                  !.history_dates = [i \in DOMAIN history |-> history[i].val["ds"]]],
              error |-> ""]

\* the n month starts that follow date d
RECURSIVE MonthStartsAfter(_, _)
MonthStartsAfter(d, n) ==
    IF n = 0 THEN <<>>
    ELSE <<NextMonthStart(d)>> \o MonthStartsAfter(NextMonthStart(d), n - 1)

\* model.make_future_dataframe(periods=n, freq='MS'): the history's dates, then
\* the n month starts after the last of them
make_future_dataframe(m, n) ==
    LET last == m.history_dates[Len(m.history_dates)]
        dates == m.history_dates \o MonthStartsAfter(last, n)
    IN  [columns |-> <<"ds">>,
         rows |-> [i \in DOMAIN dates |-> [label |-> i - 1, val |-> [c \in {"ds"} |-> dates[i]]]]]

\* what the model predicts at the row in position p, r scaling the model's error
Yhat(p, r) == 103 + r * (p % 3)

\* model.predict(df): one row per row of df, sorted by ds and re-indexed, the
\* prediction yhat in the last column
predict(m, frame, r) ==
    IF Len(frame.rows) = 0 \/ MissingColumns(m, frame)
    THEN [frame |-> NoFrame, error |-> "ValueError"]
    ELSE LET sorted == sort_values(frame.rows)
         IN  [frame |-> [columns |-> <<"ds", "trend", "yhat">>,
                         rows |-> [p \in DOMAIN sorted |->
                                     [label |-> p - 1,
                                      val |-> [c \in {"ds", "trend", "yhat"} |->
                                                 IF c = "ds" THEN sorted[p].val["ds"]
                                                 ELSE Yhat(p, r)]]]],
              error |-> ""]

\* cross_validation(model, initial, period, horizon), in days: there is no cutoff
\* when the history is shorter than initial + horizon
CrossValidationFails(m, initial, horizon) ==
    LET first == Ordinal(m.history_dates[1])
        last == Ordinal(m.history_dates[Len(m.history_dates)])
    IN  last - horizon < first + initial

----------------------------------------------------------------------------
(* The metrics of final_prophet_model *)

NaN == [nan |-> TRUE, num |-> 0, den |-> 0]

Abs(x) == IF x < 0 THEN 0 - x ELSE x

\* f[lo] + ... + f[hi]
RECURSIVE Sum(_, _, _)
Sum(f, lo, hi) ==
    IF lo > hi THEN 0
    ELSE IF lo = hi THEN f[lo]
    ELSE LET mid == (lo + hi) \div 2
         IN  Sum(f, lo, mid) + Sum(f, mid + 1, hi)

\* frame.<column> as a series of labelled values
Column(frame, c) == [i \in DOMAIN frame.rows |->
                        [label |-> frame.rows[i].label, v |-> frame.rows[i].val[c]]]

\* forecast.iloc[-24:, -1]: the last 24 rows
iloc_last24(frame) ==
    LET n == Len(frame.rows)
        c == frame.columns[Len(frame.columns)]
    IN  SubSeq(Column(frame, c), IF n > 24 THEN n - 23 ELSE 1, n)

\* the position (counted from 0) the slice of line 124 starts at
SliceStart == 288

\* forecast.iloc[288:, -1]: the rows from position 288 (counted from 0) on, last column
iloc_288(frame) ==
    LET c == frame.columns[Len(frame.columns)]
    IN  SubSeq(Column(frame, c), SliceStart + 1, Len(frame.rows))

\* the pairs <<position in pred, position in act>> that pred - act subtracts:
\* the rows of equal label
LabelPairs(pred, act) ==
    { <<p, a>> \in (DOMAIN pred) \X (DOMAIN act) : pred[p].label = act[a].label }

\* the pairs mean_squared_error(act, pred) subtracts: the rows of equal position
PositionPairs(pred, act) == { <<i, i>> : i \in (DOMAIN pred) \cap (DOMAIN act) }

\* np.mean(np.abs(y_predicted - y_actual)): the mean over the labels both have
\* (a label only one side has gives NaN, which the mean skips); NaN if none
mean_abs_diff(pred, act) ==
    LET match == [p \in DOMAIN pred |-> { a \in DOMAIN act : act[a].label = pred[p].label }]
        term == [p \in DOMAIN pred |->
                    IF match[p] = {} THEN 0
                    ELSE Abs(pred[p].v - act[CHOOSE a \in match[p] : TRUE].v)]
        count == Cardinality({ p \in DOMAIN pred : match[p] # {} })
    IN  IF count = 0 THEN NaN
        ELSE [nan |-> FALSE, num |-> Sum(term, 1, Len(pred)), den |-> count]

\* mean_squared_error(y_actual, y_predicted): by position; ValueError when the
\* two differ in length or are empty.  value is the mean under the root.
mean_squared_error(act, pred) ==
    IF Len(act) # Len(pred) \/ Len(act) = 0
    THEN [value |-> NaN, error |-> "ValueError"]
    ELSE LET term == [i \in DOMAIN act |-> (act[i].v - pred[i].v) * (act[i].v - pred[i].v)]
         IN  [value |-> [nan |-> FALSE, num |-> Sum(term, 1, Len(act)), den |-> Len(act)],
              error |-> ""]

----------------------------------------------------------------------------
(* The run: main() and, inlined at its call, final_prophet_model() *)

NoError == [kind |-> "", at |-> ""]

NoMetrics == [train_mae |-> NaN, train_rmse |-> NaN, test_mae |-> NaN, test_rmse |-> NaN]

Init ==
    /\ csv \in Files
    /\ pc = "read_csv"
    /\ error = NoError
    /\ dataframe = NoFrame
    /\ train_data = NoFrame
    /\ test_data = NoFrame
    /\ all_data = NoFrame
    /\ model = NoModel
    /\ future = NoFrame
    /\ forecast = NoFrame
    /\ fig1 = [plotted |-> FALSE, points |-> 0]
    /\ cv = NaN
    /\ y_actual = <<>>
    /\ y_predicted = <<>>
    /\ metrics = NoMetrics
    /\ stdout = <<>>
    /\ log = <<>>

\* the step raised: the exception leaves main()
Raise(kind, at) ==
    /\ pc' = "failed"
    /\ error' = [kind |-> kind, at |-> at]

\* line 145: dataframe = pd.read_csv(...)
ReadCsv ==
    /\ pc = "read_csv"
    /\ dataframe' = read_csv(csv)
    /\ log' = Append(log, "read_csv")
    /\ pc' = "split"
    /\ UNCHANGED <<csv, error, train_data, test_data, all_data, model, future, forecast,
                   fig1, cv, y_actual, y_predicted, metrics, stdout>>

\* line 148: train_data, test_data = rename_and_train_test_split(dataframe)
Split ==
    /\ pc = "split"
    /\ LET r == rename_and_train_test_split(dataframe)
       IN  /\ dataframe' = r.arg
           /\ log' = Append(log, "rename_and_train_test_split")
           /\ IF r.error # ""
              THEN /\ Raise(r.error, "rename_and_train_test_split")
                   /\ UNCHANGED <<train_data, test_data>>
              ELSE /\ train_data' = r.train
                   /\ test_data' = r.test
                   /\ pc' = "concat"
                   /\ UNCHANGED error
    /\ UNCHANGED <<csv, all_data, model, future, forecast, fig1, cv, y_actual,
                   y_predicted, metrics, stdout>>

\* line 80: all_data = pd.concat([train_data, test_data], ignore_index=True)
Concat ==
    /\ pc = "concat"
    /\ all_data' = concat(train_data, test_data)
    /\ log' = Append(log, "concat")
    /\ pc' = "configure"
    /\ UNCHANGED <<csv, error, dataframe, train_data, test_data, model, future, forecast,
                   fig1, cv, y_actual, y_predicted, metrics, stdout>>

\* lines 83-95: model = Prophet(...); model.add_seasonality(...) twice
Configure ==
    /\ pc = "configure"
    /\ model' = add_seasonality(add_seasonality(Prophet, YearlySeasonality),
                                RecessionSeasonality)
    /\ log' = log \o <<"Prophet", "add_seasonality", "add_seasonality">>
    /\ pc' = "fit"
    /\ UNCHANGED <<csv, error, dataframe, train_data, test_data, all_data, future, forecast,
                   fig1, cv, y_actual, y_predicted, metrics, stdout>>

\* the frame fitted on, were the model fitted on the whole series
fit_input_all == all_data

\* line 98: the frame model.fit is given
fit_input == train_data

\* line 98: model.fit(train_data)
Fit ==
    /\ pc = "fit"
    /\ LET r == fit(model, fit_input)
       IN  /\ model' = r.model
           /\ log' = Append(log, "fit")
           /\ IF r.error # ""
              THEN Raise(r.error, "fit")
              ELSE pc' = "make_future" /\ UNCHANGED error
    /\ UNCHANGED <<csv, dataframe, train_data, test_data, all_data, future, forecast,
                   fig1, cv, y_actual, y_predicted, metrics, stdout>>

\* line 101: periods=24
periods == 24

\* lines 101-104: future = model.make_future_dataframe(periods=24, freq='MS');
\* future['great_recession'] = future['ds'].apply(is_great_recession)
MakeFuture ==
    /\ pc = "make_future"
    /\ future' = AddGreatRecession(make_future_dataframe(model, periods))
    /\ log' = Append(log, "make_future_dataframe")
    /\ pc' = "predict"
    /\ UNCHANGED <<csv, error, dataframe, train_data, test_data, all_data, model, forecast,
                   fig1, cv, y_actual, y_predicted, metrics, stdout>>

\* the frame predicted on, were it the extended date axis
predict_input_future == future

\* line 107: the frame model.predict is given
predict_input == all_data

\* line 107: forecast = model.predict(all_data); what the fitted model predicts is
\* the library's business: any error pattern r within the bound
Predict ==
    /\ pc = "predict"
    /\ \E r \in (0 - MaxErr) .. MaxErr :
          LET res == predict(model, predict_input, r)
          IN  /\ forecast' = res.frame
              /\ IF res.error # ""
                 THEN Raise(res.error, "predict")
                 ELSE pc' = "plot" /\ UNCHANGED error
    /\ log' = Append(log, "predict")
    /\ UNCHANGED <<csv, dataframe, train_data, test_data, all_data, model, future,
                   fig1, cv, y_actual, y_predicted, metrics, stdout>>

\* line 110: fig1 = model.plot(forecast)
Plot ==
    /\ pc = "plot"
    /\ fig1' = [plotted |-> TRUE, points |-> Len(forecast.rows)]
    /\ log' = Append(log, "plot")
    /\ pc' = "cross_validation"
    /\ UNCHANGED <<csv, error, dataframe, train_data, test_data, all_data, model, future,
                   forecast, cv, y_actual, y_predicted, metrics, stdout>>

\* line 113: initial='730 days', horizon='365 days'
initial_days == 730
horizon_days == 365

\* lines 113-120: cv_results = cross_validation(model, initial='730 days',
\* period='180 days', horizon='365 days'); performance_results =
\* performance_metrics(cv_results, metrics=['mae', 'rmse']); the means of the two.
\* The values are the library's business: any error within the bound.
CrossValidate ==
    /\ pc = "cross_validation"
    /\ IF CrossValidationFails(model, initial_days, horizon_days)
       THEN /\ Raise("ValueError", "cross_validation")
            /\ log' = Append(log, "cross_validation")
            /\ UNCHANGED <<cv, metrics>>
       ELSE /\ \E a \in 0 .. MaxErr :
                 /\ cv' = [nan |-> FALSE, num |-> a, den |-> 1]
                 /\ metrics' = [metrics EXCEPT
                                  !.train_mae = [nan |-> FALSE, num |-> a, den |-> 1],
                                  !.train_rmse = [nan |-> FALSE, num |-> a * a, den |-> 1]]
            /\ log' = log \o <<"cross_validation", "performance_metrics">>
            /\ pc' = "metrics"
            /\ UNCHANGED error
    /\ UNCHANGED <<csv, dataframe, train_data, test_data, all_data, model, future,
                   forecast, fig1, y_actual, y_predicted, stdout>>

\* the slice taken one row early: forecast.iloc[287:, -1]
y_predicted_from287(frame) ==
    SubSeq(Column(frame, frame.columns[Len(frame.columns)]), SliceStart, Len(frame.rows))

\* the slice taken from the end: the last 24 rows
y_predicted_last24(frame) == iloc_last24(frame)

\* line 124: y_predicted = forecast.iloc[288:, -1]
y_predicted_of(frame) == iloc_288(frame)

\* lines 123-128: y_actual, y_predicted, test_mae, test_rmse
TestMetrics ==
    /\ pc = "metrics"
    /\ LET act == Column(test_data, "y")
           pred == y_predicted_of(forecast)
           mse == mean_squared_error(act, pred)
       IN  /\ y_actual' = act
           /\ y_predicted' = pred
           /\ metrics' = [metrics EXCEPT !.test_mae = mean_abs_diff(pred, act),
                                         !.test_rmse = mse.value]
           /\ IF mse.error # ""
              THEN Raise(mse.error, "mean_squared_error")
              ELSE pc' = "print" /\ UNCHANGED error
    /\ log' = Append(log, "test_metrics")
    /\ UNCHANGED <<csv, dataframe, train_data, test_data, all_data, model, future,
                   forecast, fig1, cv, stdout>>

\* lines 130-137: print(...); return forecast, fig1
Report ==
    /\ pc = "print"
    /\ stdout' = <<metrics.train_mae, metrics.train_rmse, metrics.test_mae, metrics.test_rmse>>
    /\ log' = Append(log, "print")
    /\ pc' = "done"
    /\ UNCHANGED <<csv, error, dataframe, train_data, test_data, all_data, model, future,
                   forecast, fig1, cv, y_actual, y_predicted, metrics>>

Next ==
    \/ ReadCsv
    \/ Split
    \/ Concat
    \/ Configure
    \/ Fit
    \/ MakeFuture
    \/ Predict
    \/ Plot
    \/ CrossValidate
    \/ TestMetrics
    \/ Report

Spec == Init /\ [][Next]_vars

----------------------------------------------------------------------------
(* Properties *)

\* a date as the number yyyymmdd
Enc(d) == d[1] * 10000 + d[2] * 100 + d[3]

Called(name) == name \in Range(log)

\* the documented input: monthly, 1992-01-01 .. 2018-01-01, in date order
StdFile == [header |-> StdHeader, rows |-> FileRows(Jan1992, Jan2018, "asc", "MS")]

TaggedFrames ==
    { f \in {train_data, test_data, future} : "great_recession" \in Range(f.columns) }

\* C1: every row the tagger has tagged carries 1 if its date lies in
\* 2007-12-01 .. 2009-06-01 (bounds included) and 0 otherwise; 2007-12-01 and
\* 2009-06-01 carry 1, 2007-11-30 and 2009-06-02 carry 0; rows of equal date
\* carry equal tags.
C1_TaggerWindow ==
    \A f \in TaggedFrames :
        /\ \A i \in DOMAIN f.rows :
              LET d == f.rows[i].val["ds"]
                  t == f.rows[i].val["great_recession"]
              IN  /\ t = (IF 20071201 <= Enc(d) /\ Enc(d) <= 20090601 THEN 1 ELSE 0)
                  /\ d \in { <<2007, 12, 1>>, <<2009, 6, 1>> } => t = 1
                  /\ d \in { <<2007, 11, 30>>, <<2009, 6, 2>> } => t = 0
        /\ pc = "predict"
           => \A i \in DOMAIN f.rows :
                 \A j \in DOMAIN future.rows :
                    f.rows[i].val["ds"] = future.rows[j].val["ds"]
                    => f.rows[i].val["great_recession"] = future.rows[j].val["great_recession"]

HasTagged(f, d, t) ==
    \E i \in DOMAIN f.rows : f.rows[i].val["ds"] = d /\ f.rows[i].val["great_recession"] = t

C1_Witness ==
    /\ pc = "concat"
    /\ HasTagged(train_data, <<2007, 12, 1>>, 1)
    /\ HasTagged(train_data, <<2009, 6, 1>>, 1)
    /\ HasTagged(train_data, <<2007, 11, 1>>, 0)
    /\ HasTagged(train_data, <<2009, 7, 1>>, 0)

\* how many rows of the frame carry the label and the date
Occurrences(f, label, d) ==
    Cardinality({ j \in DOMAIN f.rows : f.rows[j].label = label /\ f.rows[j].val["ds"] = d })

\* C2: when the partitioner returns, every input row dated before 2016-01-01
\* is in Train once and not in Test, every input row dated 2016-01-01 ..
\* 2018-01-01 is in Test once and not in Train, and every later input row is
\* in neither; Train and Test hold no other rows.
C2_PartitionCover ==
    pc = "concat" =>
        /\ \A i \in DOMAIN csv.rows :
              LET d == csv.rows[i][1]
                  inTrain == Occurrences(train_data, i - 1, d)
                  inTest == Occurrences(test_data, i - 1, d)
              IN  /\ Enc(d) < 20160101 => inTrain = 1 /\ inTest = 0
                  /\ 20160101 <= Enc(d) /\ Enc(d) <= 20180101 => inTest = 1 /\ inTrain = 0
                  /\ Enc(d) > 20180101 => inTrain = 0 /\ inTest = 0
        /\ Len(train_data.rows) + Len(test_data.rows) <= Len(csv.rows)

C2_Witness ==
    /\ pc = "concat"
    /\ \E i \in DOMAIN test_data.rows : test_data.rows[i].val["ds"] = <<2016, 1, 1>>
    /\ \E i \in DOMAIN test_data.rows : test_data.rows[i].val["ds"] = <<2018, 1, 1>>
    /\ \E i \in DOMAIN csv.rows : csv.rows[i][1] = <<2018, 2, 1>>
    /\ \E i \in DOMAIN train_data.rows : train_data.rows[i].val["ds"] = <<2015, 12, 1>>

MissingGasPrice ==
    /\ "gas_price" \notin Range(csv.header)
    /\ "month_and_year" \in Range(csv.header)

RowsBeyond(f, d) == { i \in DOMAIN f.rows : DateLt(d, f.rows[i].val["ds"]) }

Dates(f) == { f.rows[i].val["ds"] : i \in DOMAIN f.rows }

\* C4 as stated: for the documented input the forecast returned has exactly
\* 24 rows dated after 2018-01-01.
C4_ForecastExtends24 ==
    csv = StdFile /\ pc = "done" => Cardinality(RowsBeyond(forecast, last_date)) = 24

\* C4, amended: the forecast has one row per row of the combined Train+Test
\* series, in date order, and no row dated after 2018-01-01 (313 rows ending
\* 2018-01-01 for the documented input); the 24 month starts are appended
\* after the last Train date in future, which is not what is predicted on.
C4_ForecastCoversAllData ==
    Called("predict") /\ error.at # "predict" =>
        /\ Len(forecast.rows) = Len(all_data.rows)
        /\ Dates(forecast) = Dates(all_data)
        /\ \A i \in DOMAIN forecast.rows :
              i > 1 => Enc(forecast.rows[i - 1].val["ds"]) < Enc(forecast.rows[i].val["ds"])
        /\ RowsBeyond(forecast, last_date) = {}
        /\ Len(future.rows) = Len(train_data.rows) + 24
        /\ Cardinality(Dates(future) \ Dates(train_data)) = 24
        /\ \A d \in Dates(future) \ Dates(train_data) :
              /\ d[3] = 1
              /\ \A t \in Dates(train_data) : DateLt(t, d)
        /\ csv = StdFile
           => /\ Len(forecast.rows) = 313
              /\ forecast.rows[313].val["ds"] = <<2018, 1, 1>>
              /\ future.rows[Len(future.rows)].val["ds"] = <<2017, 12, 1>>

C4_Witness ==
    /\ csv = StdFile
    /\ pc = "done"
    /\ Len(forecast.rows) = 313
    /\ Len(future.rows) = 312

\* the forecast's predictions from position lo (counted from 1) to the end
Predictions(lo) ==
    [i \in 1 .. (Len(forecast.rows) - lo + 1) |-> forecast.rows[lo + i - 1].val["yhat"]]

Values(series) == [i \in DOMAIN series |-> series[i].v]

\* the slice's i-th value and Test's i-th value are those of the same date
PairedByDate(lo) ==
    /\ Len(y_predicted) = Len(test_data.rows)
    /\ Len(y_actual) = Len(test_data.rows)
    /\ \A i \in DOMAIN y_predicted :
          /\ lo + i - 1 \in DOMAIN forecast.rows
          /\ y_predicted[i].label = lo + i - 2
          /\ forecast.rows[lo + i - 1].val["ds"] = test_data.rows[i].val["ds"]
          /\ y_actual[i].v = test_data.rows[i].val["y"]

\* C5 as stated: for the documented input the predictions compared with
\* Test's y are the last 24 rows of the forecast, one per Test row, each paired
\* with the actual value of the same date.
C5_Last24Rows ==
    csv = StdFile /\ Called("test_metrics") =>
        /\ Values(y_predicted) = Predictions(Len(forecast.rows) - 23)
        /\ PairedByDate(Len(forecast.rows) - 23)

\* C5, amended: for the documented input the predictions compared with Test's
\* y are the rows from position 288 on, the last 25 rows of the forecast, one
\* per Test row (2016-01-01 .. 2018-01-01), each paired with the actual value
\* of the same date.
C5_Last25Rows ==
    csv = StdFile /\ Called("test_metrics") =>
        /\ Len(test_data.rows) = 25
        /\ Len(forecast.rows) = 313
        /\ Values(y_predicted) = Predictions(289)
        /\ PairedByDate(289)
        /\ error = NoError

C5_Witness ==
    /\ csv = StdFile
    /\ pc = "print"
    /\ Len(y_predicted) = 25
    /\ y_predicted[1].label = 288

\* C6: the partitioner leaves the frame it is given as read from the file
\* (same columns, labels and values), and a second call on it returns the
\* same Train and Test.
C6_InputUnchanged ==
    Called("rename_and_train_test_split") =>
        /\ dataframe.columns = csv.header
        /\ Len(dataframe.rows) = Len(csv.rows)
        /\ \A i \in DOMAIN dataframe.rows :
              /\ dataframe.rows[i].label = i - 1
              /\ DOMAIN dataframe.rows[i].val = Range(csv.header)
              /\ dataframe.rows[i].val[csv.header[1]] = csv.rows[i][1]
              /\ dataframe.rows[i].val[csv.header[2]] = csv.rows[i][2]
        /\ pc = "concat"
           => LET again == rename_and_train_test_split(dataframe)
              IN  /\ again.error = ""
                  /\ again.train = train_data
                  /\ again.test = test_data

C6_Witness ==
    /\ pc = "concat"
    /\ dataframe.columns = <<"month_and_year", "gas_price">>
    /\ train_data.columns = <<"ds", "y", "great_recession">>
    /\ Len(train_data.rows) > 0
    /\ Len(test_data.rows) > 0

ExpectedCalls ==
    <<"read_csv", "rename_and_train_test_split", "concat", "Prophet", "add_seasonality",
      "add_seasonality", "fit", "make_future_dataframe", "predict", "plot",
      "cross_validation", "performance_metrics", "test_metrics", "print">>

\* C7: the calls made are a prefix of load, split, configure, fit, predict,
\* cross-validate, report; fit is called at most once (once in a run that
\* ends normally) and only on Train's rows, none of them a Test row; the
\* metrics are printed only after predict and cross_validation have returned.
C7_StepOrder ==
    /\ Len(log) <= Len(ExpectedCalls)
    /\ log = SubSeq(ExpectedCalls, 1, Len(log))
    /\ model.fits <= 1
    /\ pc = "done" => model.fits = 1 /\ log = ExpectedCalls
    /\ model.fits = 1
       => /\ Len(model.history) = Len(train_data.rows)
          /\ { r.val["ds"] : r \in Range(model.history) } = Dates(train_data)
          /\ \A r \in Range(model.history) :
                /\ Enc(r.val["ds"]) < 20160101
                /\ r.val["ds"] \notin Dates(test_data)
    /\ stdout # <<>>
       => /\ Called("predict") /\ Called("cross_validation")
          /\ forecast # NoFrame
          /\ ~cv.nan

C7_Witness ==
    /\ pc = "done"
    /\ model.fits = 1
    /\ stdout # <<>>
    /\ Len(test_data.rows) > 0

\* the residuals (predicted minus actual) of the Test rows, by date
TestResiduals ==
    { <<t, forecast.rows[p].val["yhat"] - test_data.rows[t].val["y"]>> :
        <<t, p>> \in { tp \in (DOMAIN test_data.rows) \X (DOMAIN forecast.rows) :
                         test_data.rows[tp[1]].val["ds"] = forecast.rows[tp[2]].val["ds"] } }

\* C8: once the test metrics are computed, MAE and RMSE are numbers, not
\* negative, both over the residuals of the Test rows, RMSE >= MAE, with equality
\* only when all residuals have the same magnitude.  (MAE = num / den; RMSE is
\* the root of num / den.)
C8_RmseAtLeastMae ==
    Called("test_metrics") =>
        LET mae == metrics.test_mae
            mse == metrics.test_rmse
        IN  /\ error = NoError
            /\ ~mae.nan /\ ~mse.nan
            /\ mae.num >= 0 /\ mse.num >= 0
            /\ mae.den = Len(test_data.rows) /\ mse.den = Len(test_data.rows)
            /\ LabelPairs(y_predicted, y_actual) = PositionPairs(y_predicted, y_actual)
            /\ mse.num * mae.den * mae.den >= mae.num * mae.num * mse.den
            /\ mse.num * mae.den * mae.den = mae.num * mae.num * mse.den
               => \A a, b \in TestResiduals : Abs(a[2]) = Abs(b[2])

\* C9: once the test metrics are computed, the pairs the MAE subtracts (equal
\* label) are the pairs the RMSE subtracts (equal position), and the RMSE has
\* not failed.
C9_PairingsCoincide ==
    Called("test_metrics") =>
        /\ error.at # "mean_squared_error"
        /\ LabelPairs(y_predicted, y_actual) = PositionPairs(y_predicted, y_actual)
        /\ Len(y_predicted) = Len(y_actual)

\* the slice is exactly the predictions of the Test rows: the forecast rows it
\* holds are those dated in the test range
SliceExact ==
    { y_predicted[i].label + 1 : i \in DOMAIN y_predicted }
    = { p \in DOMAIN forecast.rows : DateLe(start_date, forecast.rows[p].val["ds"]) }

SliceHasTrainRow ==
    \E i \in DOMAIN y_predicted :
        DateLt(forecast.rows[y_predicted[i].label + 1].val["ds"], start_date)

SliceOmitsTestRow ==
    \E p \in DOMAIN forecast.rows :
        /\ DateLe(start_date, forecast.rows[p].val["ds"])
        /\ \A i \in DOMAIN y_predicted : y_predicted[i].label + 1 # p

\* nothing stands between the slice and the metrics: the MAE is computed from
\* the slice as taken, and only mean_squared_error can then fail
NoCheckBeforeMetrics ==
    /\ error.at \in {"", "mean_squared_error"}
    /\ metrics.test_mae = mean_abs_diff(y_predicted, y_actual)

SliceInTestOrder ==
    /\ Len(y_predicted) = Len(test_data.rows)
    /\ \A i \in DOMAIN y_predicted :
          forecast.rows[y_predicted[i].label + 1].val["ds"] = test_data.rows[i].val["ds"]

SliceInDateOrder ==
    /\ Len(y_predicted) = Len(test_data.rows)
    /\ \A i \in DOMAIN y_predicted :
          /\ forecast.rows[y_predicted[i].label + 1].val["ds"] \in Dates(test_data)
          /\ i > 1 => DateLt(forecast.rows[y_predicted[i - 1].label + 1].val["ds"],
                             forecast.rows[y_predicted[i].label + 1].val["ds"])

TestSorted ==
    \A i \in DOMAIN test_data.rows :
        i > 1 => DateLt(test_data.rows[i - 1].val["ds"], test_data.rows[i].val["ds"])

\* C10 as stated: the slice is exact iff Train has 288 rows; with 288 Train
\* rows it has one row per Test row in Test's order; with any other number it
\* holds a Train row or omits a Test row; nothing detects it before the metrics.
C10_ExactIff288 ==
    Called("test_metrics") =>
        /\ SliceExact <=> Len(train_data.rows) = 288
        /\ Len(train_data.rows) = 288 => SliceInTestOrder
        /\ Len(train_data.rows) # 288 => SliceHasTrainRow \/ SliceOmitsTestRow
        /\ NoCheckBeforeMetrics

\* C10, amended: the slice is exact iff Train has 288 rows, or fewer than 288
\* and Test is empty; with 288 Train rows it has one row per Test row in date
\* order, which is Test's order when Test is sorted by date; otherwise it holds
\* a Train row or omits a Test row; nothing detects it before the metrics.
C10_ExactIff288OrNoTest ==
    Called("test_metrics") =>
        /\ SliceExact <=> \/ Len(train_data.rows) = 288
                          \/ Len(train_data.rows) < 288 /\ Len(test_data.rows) = 0
        /\ Len(train_data.rows) = 288
           => /\ SliceInDateOrder
              /\ TestSorted => SliceInTestOrder
        /\ ~SliceExact => SliceHasTrainRow \/ SliceOmitsTestRow
        /\ NoCheckBeforeMetrics

C10_Witness ==
    /\ Called("test_metrics")
    /\ Len(train_data.rows) = 287
    /\ Len(test_data.rows) = 25
    /\ SliceOmitsTestRow
    /\ metrics.test_mae # NaN

====
